---------------------------- MODULE Spec2Model ----------------------------
(***************************************************************************)
(* PyAbsence (src/app.py): the presence-debounce controller of main() and  *)
(* the MQTT notifier MqttClient, as a state machine.                       *)
(*                                                                         *)
(* The main thread is followed through its program counter pc:             *)
(*   "start"         line 153, about to read the configuration             *)
(*   "make_client"   line 156, about to build the MqttClient               *)
(*   "aborted"       the configuration was rejected: main() raised          *)
(*   "scan"          line 164, about to call who()                         *)
(*   "connect"       line 144, inside mq.notify, about to connect          *)
(*   "loop_start"    line 145                                              *)
(*   "publish_begin" line 126, entering __publish__                        *)
(*   "publish"       line 127, head of the retry loop                      *)
(*   "loop_stop"     line 147                                              *)
(*   "sleep"         line 180                                              *)
(*   "crashed"       an exception left main(): the process has ended       *)
(* The paho network loop thread is the action OnConnect.                   *)
(***************************************************************************)
EXTENDS Integers, Sequences, FiniteSets

\* ------------------------------------------------------------ bounds

\* Observation cycles explored (the loop of line 163 is unbounded).
MaxCycles == 5

\* PYABS_RETRIES ranges over -1 .. MaxRetries: int() at line 70 accepts any
\* integer, negative ones included.
MaxRetries == 2

\* ------------------------------------------------------------ constants

\* The retry limit of __publish__ (while attempts < 5).
MaxAttempts == 5

\* What a scan (who(), line 164, reduced to the addresses by line 165) can
\* report: nothing, the first address alone, the second address alone.
Scans == {{}, {"AA:BB"}, {"CC:DD"}}

\* Values of PYABS_TRIGGERS after split(","): lists of addresses. Under the
\* first, CC:DD is a device that is no trigger.
TriggerLists == {<<"AA:BB">>, <<"AA:BB", "CC:DD">>}

\* result[0] of paho's publish(): MQTT_ERR_SUCCESS = 0, or an error code
\* (MQTT_ERR_NO_CONN = 4 stands for every non-zero one).
Statuses == {0, 4}

\* rc handed to on_connect by the broker's CONNACK: 0 accepted, else refused.
ConnackCodes == {0, 5}

VARIABLES
    environ,       \* os.environ: the seven settings as the process got them
    cfg,           \* config: delay, mqttBroker, mqttPort, mqttTopic, mqttClient
    triggers,      \* config.triggers
    retries,       \* config.retries
    absent_count,  \* main: absent_count
    notified,      \* main: notified
    pc,            \* position of the main thread
    attempts,      \* __publish__: attempts
    status,        \* __publish__: status of the last publish, -1 before any
    published,     \* publish() calls made by the current/last notify call
    sock,          \* the paho client's socket: "closed" or "open"
    connack,       \* "none", "pending", or what on_connect logged
    loopRunning,   \* the paho network loop thread is running
    history,       \* one record per completed pass of lines 164-179
    args,          \* notify's parameters <<topic, msg>>, <<>> outside a call
    sent           \* the <<topic, msg>> handed to publish() by the current call

vars == <<environ, cfg, triggers, retries, absent_count, notified, pc,
          attempts, status, published, sock, connack, loopRunning, history,
          args, sent>>

config == <<environ, cfg, triggers, retries>>
controller == <<absent_count, notified>>
client == <<sock, connack, loopRunning>>
publishVars == <<attempts, status, published, sent>>

\* ------------------------------------------------------------ startup, lines 12-29 and 66-74

\* The text of an environment variable is a sequence of lexemes: a digit, a
\* sign, a comma, a letter, or a whole address or name; <<>> is the empty
\* text, which environ.get(name, "") also gives for a variable that is unset.
DigitChars == <<"0", "1", "2", "3", "4", "5", "6", "7", "8", "9">>

IsDigit(c) ==
    \E i \in 1..Len(DigitChars) : DigitChars[i] = c

DigitValue(c) ==
    (CHOOSE i \in 1..Len(DigitChars) : DigitChars[i] = c) - 1

\* The text without a leading sign.
Unsigned(text) ==
    IF text # <<>> /\ text[1] \in {"-", "+"} THEN Tail(text) ELSE text

RECURSIVE DigitsValue(_)
DigitsValue(digits) ==
    IF digits = <<>> THEN 0
    ELSE 10 * DigitsValue(SubSeq(digits, 1, Len(digits) - 1))
             + DigitValue(digits[Len(digits)])

\* int(text) returns (lines 69, 70, 72): an optional sign and at least one
\* digit; any other text raises ValueError.
IsInt(text) ==
    /\ Unsigned(text) # <<>>
    /\ \A i \in 1..Len(Unsigned(text)) : IsDigit(Unsigned(text)[i])

\* int(text), for a text int() accepts
IntOf(text) ==
    IF text[1] = "-" THEN 0 - DigitsValue(Unsigned(text))
                     ELSE DigitsValue(Unsigned(text))

\* The decimal text of n, as it is written in the environment.
RECURSIVE NaturalText(_)
NaturalText(n) ==
    IF n < 10 THEN <<DigitChars[n + 1]>>
    ELSE Append(NaturalText(n \div 10), DigitChars[(n % 10) + 1])

IntText(n) ==
    IF n < 0 THEN <<"-">> \o NaturalText(0 - n) ELSE NaturalText(n)

\* The string a text without commas stands for.
Word(text) ==
    IF text = <<>> THEN "" ELSE text[1]

\* line 68: triggers.split(","), one string per piece, "" for an empty piece
RECURSIVE Split(_)
Split(text) ==
    IF \A i \in 1..Len(text) : text[i] # ","
    THEN <<Word(text)>>
    ELSE LET k == CHOOSE i \in 1..Len(text) :
                      /\ text[i] = ","
                      /\ \A j \in 1..(i - 1) : text[j] # ","
         IN  <<Word(SubSeq(text, 1, k - 1))>>
                 \o Split(SubSeq(text, k + 1, Len(text)))

\* The seven settings main() reads, all with required = True.
Settings == {"PYABS_TRIGGERS", "PYABS_DELAY", "PYABS_RETRIES", "MQTT_BROKER",
             "MQTT_PORT", "MQTT_TOPIC", "MQTT_CLIENT"}

\* The environments the process is started in.
TriggerTexts == {<<>>, <<"AA:BB">>, <<"AA:BB", ",", "CC:DD">>, <<",">>}
DelayTexts == {<<>>, <<"3", "0">>, <<"x">>}
RetriesTexts == {IntText(n) : n \in (-1)..MaxRetries} \cup {<<>>, <<"x">>}
PortTexts == {<<>>, <<"1", "8", "8", "3">>, <<"x">>}
TopicTexts == {<<>>, <<"home/away">>, <<"home/alarm">>}

Environs ==
    [PYABS_TRIGGERS : TriggerTexts, PYABS_DELAY : DelayTexts,
     PYABS_RETRIES : RetriesTexts, MQTT_BROKER : {<<>>, <<"broker">>},
     MQTT_PORT : PortTexts, MQTT_TOPIC : TopicTexts,
     MQTT_CLIENT : {<<>>, <<"pyabsence">>}]

\* GetenvRaises with the test of required dropped: nothing is ever missing.
GetenvNeverRaises(value, required) ==
    FALSE

\* lines 26-28: getenv raises for a required variable that is unset or empty
GetenvRaises(value, required) ==
    value = <<>> /\ required

\* lines 66-74: PyAbsenceConfig() raises, from getenv or from int()
ConfigRaises(env) ==
    \/ \E name \in Settings : GetenvRaises(env[name], TRUE)
    \/ ~IsInt(env.PYABS_DELAY)
    \/ ~IsInt(env.PYABS_RETRIES)
    \/ ~IsInt(env.MQTT_PORT)

\* lines 69-74: the settings besides triggers and retries
SettingsOf(env) ==
    [delay |-> IntOf(env.PYABS_DELAY), mqttBroker |-> Word(env.MQTT_BROKER),
     mqttPort |-> IntOf(env.MQTT_PORT), mqttTopic |-> Word(env.MQTT_TOPIC),
     mqttClient |-> Word(env.MQTT_CLIENT)]

\* cfg before line 153 has run
NoSettings ==
    [delay |-> 0, mqttBroker |-> "", mqttPort |-> 0, mqttTopic |-> "",
     mqttClient |-> ""]

\* line 153, PyAbsenceConfig() returning
LoadConfig ==
    /\ pc = "start"
    /\ ~ConfigRaises(environ)
    /\ triggers' = Split(environ.PYABS_TRIGGERS)
    /\ retries' = IntOf(environ.PYABS_RETRIES)
    /\ cfg' = SettingsOf(environ)
    /\ pc' = "make_client"
    /\ UNCHANGED <<environ, controller, publishVars, client, history, args>>

\* line 153, PyAbsenceConfig() raising: main() ends with the exception
LoadConfigRaises ==
    /\ pc = "start"
    /\ ConfigRaises(environ)
    /\ pc' = "aborted"
    /\ UNCHANGED <<config, controller, publishVars, client, history, args>>

\* lines 156-162: the client is built, the loop is about to begin
MakeClient ==
    /\ pc = "make_client"
    /\ pc' = "scan"
    /\ UNCHANGED <<config, controller, publishVars, client, history, args>>

\* ------------------------------------------------------------ main(), lines 164-179

\* line 166: sum([1 for s in config.triggers if s in mac_addresses]) == 0
Absent(trs, macs) ==
    Cardinality({i \in 1..Len(trs) : trs[i] \in macs}) = 0

\* UpdateCount with the reset of line 173 forgotten.
UpdateCountNoReset(absent, count) ==
    IF absent THEN count + 1 ELSE count

\* lines 167-173, the counter
UpdateCount(absent, count) ==
    IF absent THEN count + 1 ELSE 0

\* UpdateNotified with the reset of line 174 forgotten.
UpdateNotifiedSticky(absent, flag) ==
    flag

\* lines 167-174, the flag
UpdateNotified(absent, flag) ==
    IF absent THEN flag ELSE FALSE

\* ShouldNotify without the test of notified.
ShouldNotifyIgnoringFlag(count, flag, r) ==
    count > r

\* ShouldNotify with >= for >.
ShouldNotifyAtThreshold(count, flag, r) ==
    count >= r /\ ~flag

\* ShouldNotify with the threshold one cycle late.
ShouldNotifyLate(count, flag, r) == count > r + 1 /\ ~flag

\* line 175
ShouldNotify(count, flag, r) ==
    count > r /\ ~flag

\* line 179: the arguments of mq.notify
NotifyArgs(c) ==
    <<c.mqttTopic, "on">>

\* One pass of lines 164-179 up to the call of mq.notify, the scanner
\* reporting the addresses macs.
Cycle(macs) ==
    /\ pc = "scan"
    /\ Len(history) < MaxCycles
    /\ LET absent == Absent(triggers, macs)
           count  == UpdateCount(absent, absent_count)
           flag   == UpdateNotified(absent, notified)
           fire   == ShouldNotify(count, flag, retries)
       IN  /\ absent_count' = count
           /\ notified' = (IF fire THEN TRUE ELSE flag)
           /\ pc' = (IF fire THEN "connect" ELSE "sleep")
           /\ history' = Append(history,
                  [macs |-> macs, entered |-> notified, count |-> count,
                   notified |-> (IF fire THEN TRUE ELSE flag),
                   fired |-> fire,
                   outcome |-> IF fire THEN "pending" ELSE "none"])
           /\ args' = (IF fire THEN NotifyArgs(cfg) ELSE <<>>)
    /\ UNCHANGED <<config, publishVars, client>>

\* line 164: who() raises; nothing in main() catches it.
ScanRaises ==
    /\ pc = "scan"
    /\ Len(history) < MaxCycles
    /\ pc' = "crashed"
    /\ UNCHANGED <<config, controller, publishVars, client, history, args>>

\* line 180
Sleep ==
    /\ pc = "sleep"
    /\ pc' = "scan"
    /\ UNCHANGED <<config, controller, publishVars, client, history, args>>

\* ------------------------------------------------------------ MqttClient

\* lines 114-116: paho's connect() opens the socket and sends CONNECT
\* (an earlier socket of the same client is replaced).
ConnectOk ==
    /\ pc = "connect"
    /\ sock' = "open"
    /\ connack' = "pending"
    /\ pc' = "loop_start"
    /\ UNCHANGED <<config, controller, publishVars, loopRunning, history, args>>

\* lines 114-116: paho's connect() raises (broker unreachable); neither
\* notify nor main() catches it.
ConnectRaises ==
    /\ pc = "connect"
    /\ sock' = "closed"
    /\ connack' = "none"
    /\ pc' = "crashed"
    /\ UNCHANGED <<config, controller, publishVars, loopRunning, history, args>>

\* line 145
LoopStart ==
    /\ pc = "loop_start"
    /\ loopRunning' = TRUE
    /\ pc' = "publish_begin"
    /\ UNCHANGED <<config, controller, publishVars, sock, connack, history, args>>

\* lines 118-123, run by the network loop thread when CONNACK arrives.
OnConnect ==
    /\ loopRunning
    /\ connack = "pending"
    /\ \E rc \in ConnackCodes :
          connack' = (IF rc = 0 THEN "accepted" ELSE "refused")
    /\ UNCHANGED <<config, controller, pc, publishVars, sock, loopRunning,
                   history, args>>

\* line 126
PublishBegin ==
    /\ pc = "publish_begin"
    /\ attempts' = 0
    /\ status' = -1
    /\ published' = 0
    /\ sent' = {}
    /\ pc' = "publish"
    /\ UNCHANGED <<config, controller, client, history, args>>

\* LoopCondition with <= for <.
LoopConditionOneMore(n) ==
    n <= MaxAttempts

\* line 127
LoopCondition(n) ==
    n < MaxAttempts

\* AfterAttempt raising once the last attempt has failed.
AfterAttemptRaising(st, n) ==
    IF st = 0 THEN [pc |-> "loop_stop", attempts |-> n]
    ELSE IF n + 1 = MaxAttempts THEN [pc |-> "crashed", attempts |-> n + 1]
    ELSE [pc |-> "publish", attempts |-> n + 1]

\* lines 130-134: where one attempt with status st leaves the loop
AfterAttempt(st, n) ==
    IF st = 0 THEN [pc |-> "loop_stop", attempts |-> n]
              ELSE [pc |-> "publish", attempts |-> n + 1]

\* PublishCall with the two arguments in the wrong order.
PublishCallSwapped(a) ==
    <<a[2], a[1]>>

\* line 128: what publish() is called with
PublishCall(a) ==
    <<a[1], a[2]>>

\* lines 127-134: one iteration of the retry loop
Publish ==
    /\ pc = "publish"
    /\ LoopCondition(attempts)
    /\ \E st \in Statuses :
          /\ status' = st
          /\ published' = published + 1
          /\ sent' = sent \cup {PublishCall(args)}
          /\ pc' = AfterAttempt(st, attempts).pc
          /\ attempts' = AfterAttempt(st, attempts).attempts
    /\ UNCHANGED <<config, controller, client, history, args>>

\* line 127: the loop condition fails, __publish__ returns
PublishGiveUp ==
    /\ pc = "publish"
    /\ ~LoopCondition(attempts)
    /\ pc' = "loop_stop"
    /\ UNCHANGED <<config, controller, publishVars, client, history, args>>

\* What the notify call that is returning achieved.
Outcome(st) ==
    IF st = 0 THEN "sent" ELSE "failed"

\* LoopStop re-arming the controller when the publish failed.
LoopStopRearm ==
    /\ pc = "loop_stop"
    /\ loopRunning' = FALSE
    /\ pc' = "sleep"
    /\ attempts' = 0
    /\ status' = -1
    /\ published' = 0
    /\ sent' = {}
    /\ args' = <<>>
    /\ notified' = (status = 0)
    /\ history' = [history EXCEPT ![Len(history)].outcome = Outcome(status)]
    /\ UNCHANGED <<config, absent_count, sock, connack>>

\* LoopStop with the call of loop_stop() forgotten.
LoopStopLeavesLoop ==
    /\ pc = "loop_stop"
    /\ pc' = "sleep"
    /\ attempts' = 0
    /\ status' = -1
    /\ published' = 0
    /\ sent' = {}
    /\ args' = <<>>
    /\ history' = [history EXCEPT ![Len(history)].outcome = Outcome(status)]
    /\ UNCHANGED <<config, controller, client>>

\* line 147, and the return of notify to line 180; the locals of
\* __publish__ are gone.
LoopStop ==
    /\ pc = "loop_stop"
    /\ loopRunning' = FALSE
    /\ pc' = "sleep"
    /\ attempts' = 0
    /\ status' = -1
    /\ published' = 0
    /\ sent' = {}
    /\ args' = <<>>
    /\ history' = [history EXCEPT ![Len(history)].outcome = Outcome(status)]
    /\ UNCHANGED <<config, controller, sock, connack>>

\* ------------------------------------------------------------ specification

\* lines 153-162: the configuration is read, the client built, the state set.
\* The environment is one that gave the triggers and retries; of the topics,
\* which take no part in the control of the loop, one is kept.
Init ==
    /\ triggers \in TriggerLists
    /\ retries \in (-1)..MaxRetries
    /\ absent_count = 0
    /\ notified = FALSE
    /\ pc = "scan"
    /\ attempts = 0
    /\ status = -1
    /\ published = 0
    /\ sock = "closed"
    /\ connack = "none"
    /\ loopRunning = FALSE
    /\ history = <<>>
    /\ environ \in {env \in Environs : /\ ~ConfigRaises(env)
                                        /\ Split(env.PYABS_TRIGGERS) = triggers
                                        /\ IntOf(env.PYABS_RETRIES) = retries
                                        /\ env.MQTT_TOPIC = <<"home/away">>}
    /\ cfg = SettingsOf(environ)
    /\ args = <<>>
    /\ sent = {}

Next ==
    \/ \E macs \in Scans : Cycle(macs)
    \/ ScanRaises
    \/ Sleep
    \/ ConnectOk
    \/ ConnectRaises
    \/ LoopStart
    \/ OnConnect
    \/ PublishBegin
    \/ Publish
    \/ PublishGiveUp
    \/ LoopStop

Spec == Init /\ [][Next]_vars

\* line 150: main() is entered with the environment the process was given.
StartInit ==
    /\ environ \in Environs
    /\ cfg = NoSettings
    /\ triggers = <<>>
    /\ retries = 0
    /\ absent_count = 0
    /\ notified = FALSE
    /\ pc = "start"
    /\ attempts = 0
    /\ status = -1
    /\ published = 0
    /\ sock = "closed"
    /\ connack = "none"
    /\ loopRunning = FALSE
    /\ history = <<>>
    /\ args = <<>>
    /\ sent = {}

StartNext ==
    \/ LoadConfig
    \/ LoadConfigRaises
    \/ MakeClient
    \/ Next

\* main() from its first line.
StartSpec == StartInit /\ [][StartNext]_vars

\* The steps of the main thread (everything but the network loop's callback).
MainThread ==
    \/ \E macs \in Scans : Cycle(macs)
    \/ ScanRaises
    \/ Sleep
    \/ ConnectOk
    \/ ConnectRaises
    \/ LoopStart
    \/ PublishBegin
    \/ Publish
    \/ PublishGiveUp
    \/ LoopStop

\* The main thread is never starved: every call it makes returns or raises,
\* and sleep(delay) returns.
FairSpec == Spec /\ WF_vars(MainThread)

\* ------------------------------------------------------------ the controller's properties

\* No configured trigger is among the addresses macs.
NoTriggerSeen(macs) ==
    \A i \in 1..Len(triggers) : triggers[i] \notin macs

\* Cycles i..j all observed no trigger.
AllAbsent(i, j) ==
    \A k \in i..j : NoTriggerSeen(history[k].macs)

\* absent_count = 0 and notified = FALSE when cycle i began.
StartsArmed(i) ==
    i = 1 \/ (history[i-1].count = 0 /\ ~history[i-1].notified)

\* Length of the maximal run of cycles without a trigger that ends at the
\* last cycle of h.
RECURSIVE TrailingRun(_)
TrailingRun(h) ==
    IF h = <<>> THEN 0
    ELSE IF NoTriggerSeen(h[Len(h)].macs)
         THEN 1 + TrailingRun(SubSeq(h, 1, Len(h) - 1))
         ELSE 0

\* Calls of mq.notify made in cycles 1..n.
NotifyCalls(n) ==
    Cardinality({i \in 1..n : history[i].fired})

\* C1: after each cycle absent_count is the length of the maximal trailing
\* run of cycles in which no trigger was observed (0 after a cycle that saw one).
C1_CountIsTrailingRun ==
    /\ absent_count = TrailingRun(history)
    /\ \A i \in 1..Len(history) :
          history[i].count = TrailingRun(SubSeq(history, 1, i))

\* C1 witness: a run of two absent cycles after a cycle that saw a trigger.
C1_Witness ==
    /\ Len(history) >= 3
    /\ ~NoTriggerSeen(history[Len(history) - 2].macs)
    /\ AllAbsent(Len(history) - 1, Len(history))
    /\ absent_count = 2

\* C2: a cycle calls the notifier iff absent_count after the update exceeds
\* retries and notified was false when the cycle began.
C2_NotifyIffOverThresholdAndUnnotifiedOnEntry ==
    \A i \in 1..Len(history) :
        history[i].fired <=>
            (history[i].count > retries /\ ~history[i].entered)

\* What C2 says, for the configurations with retries >= 0: it holds there.
C2_HoldsForNonNegativeRetries ==
    (retries >= 0) => C2_NotifyIffOverThresholdAndUnnotifiedOnEntry

\* C3: within one absence episode the notifier is called at most once: a
\* cycle that begins with notified true and observes no trigger never calls
\* it, and between two calls some cycle after the first observed a trigger.
C3_AtMostOncePerEpisode ==
    /\ \A j \in 1..Len(history) :
          (history[j].entered /\ NoTriggerSeen(history[j].macs))
              => ~history[j].fired
    /\ \A i, j \in 1..Len(history) :
          (i < j /\ history[i].fired /\ history[j].fired)
              => ~AllAbsent(i + 1, j)

\* C3 witness: a notification followed by two more absent cycles of the same
\* episode.
C3_Witness ==
    /\ Len(history) >= 3
    /\ history[Len(history) - 2].fired
    /\ AllAbsent(Len(history) - 2, Len(history))
    /\ pc = "sleep"

\* C4: a cycle that observes a trigger ends with absent_count = 0 and
\* notified = FALSE whatever the state before it, so a second such cycle
\* leaves the state of the first.
C4_PresentCycleResets ==
    \A i \in 1..Len(history) :
        ~NoTriggerSeen(history[i].macs) =>
            (history[i].count = 0 /\ ~history[i].notified)

\* What C4 says, for the configurations with retries >= 0: it holds there.
C4_HoldsForNonNegativeRetries ==
    (retries >= 0) => C4_PresentCycleResets

\* C5: counting consecutive absent cycles from absent_count = 0 and
\* notified = FALSE, the (retries + 1)-th calls the notifier and none of the
\* first retries does; with triggers AA:BB, retries 2 and the observations
\* {}, {}, {}, {AA:BB}, {} the counts are 1,2,3,0,1 and only cycle 3 notifies.
C5_FiresOnCycleRetriesPlusOne ==
    /\ \A i, j \in 1..Len(history) :
          (i <= j /\ StartsArmed(i) /\ AllAbsent(i, j)) =>
              /\ (j - i + 1 = retries + 1) => history[j].fired
              /\ (j - i + 1 <= retries) => ~history[j].fired
    /\ (retries = 0 /\ Len(history) >= 1 /\ NoTriggerSeen(history[1].macs))
          => history[1].fired
    /\ ( /\ triggers = <<"AA:BB">>
         /\ retries = 2
         /\ Len(history) = 5
         /\ [k \in 1..5 |-> history[k].macs] = <<{}, {}, {}, {"AA:BB"}, {}>> )
          => /\ [k \in 1..5 |-> history[k].count] = <<1, 2, 3, 0, 1>>
             /\ [k \in 1..5 |-> history[k].fired]
                    = <<FALSE, FALSE, TRUE, FALSE, FALSE>>
             /\ ~history[4].notified

\* C5 witness: the five-cycle scenario has run.
C5_Witness ==
    /\ triggers = <<"AA:BB">>
    /\ retries = 2
    /\ Len(history) = 5
    /\ [k \in 1..5 |-> history[k].macs] = <<{}, {}, {}, {"AA:BB"}, {}>>
    /\ pc = "sleep"

\* From the start: an episode of retries + 1 absent cycles, one cycle that
\* observes a trigger, and retries + 1 absent cycles again.
RoundTrip ==
    /\ retries + 1 >= 1
    /\ Len(history) >= 2 * (retries + 1) + 1
    /\ AllAbsent(1, retries + 1)
    /\ ~NoTriggerSeen(history[retries + 2].macs)
    /\ AllAbsent(retries + 3, 2 * (retries + 1) + 1)

\* C6: an episode of retries + 1 absent cycles, one cycle that observes a
\* trigger and another retries + 1 absent cycles make exactly two calls of
\* the notifier, the last cycle of each episode making one.
C6_RoundTripNotifiesTwice ==
    RoundTrip =>
        /\ NotifyCalls(2 * (retries + 1) + 1) = 2
        /\ history[retries + 1].fired
        /\ history[2 * (retries + 1) + 1].fired

\* C6 witness: the round trip with retries = 1 (five cycles) has run.
C6_Witness ==
    /\ RoundTrip
    /\ retries = 1
    /\ pc = "sleep"

\* ------------------------------------------------------------ the notifier's properties

\* The last completed pass of lines 164-179.
Last ==
    history[Len(history)]

\* C7: when every publish attempt of a notify call failed, notified is true
\* after that cycle as it is after a successful one, the counter is what the
\* cycle made it, and no later cycle of the same absence episode calls the
\* notifier again.
C7_FailedPublishStillNotified ==
    /\ (pc = "sleep" /\ Len(history) > 0 /\ Last.outcome \in {"sent", "failed"})
          => (notified /\ absent_count = Last.count)
    /\ \A i, j \in 1..Len(history) :
          (i < j /\ history[i].outcome = "failed" /\ AllAbsent(i + 1, j))
              => (history[j].entered /\ ~history[j].fired)

\* C7 witness: a notify call failed and the next cycle of the same episode
\* has run.
C7_Witness ==
    /\ Len(history) >= 2
    /\ history[Len(history) - 1].outcome = "failed"
    /\ NoTriggerSeen(Last.macs)
    /\ pc = "sleep"

\* What holds of every state around a rejected publish: the process is never
\* ended by an exception once a publish attempt has been made, the retry loop
\* and the return are open to the main thread, and absent_count and notified
\* stay as the cycle set them.
C8_StateAfterRejectedPublish ==
    /\ (pc = "crashed") => (published = 0)
    /\ (pc = "publish" /\ attempts = MaxAttempts)
          => (status # 0 /\ published = MaxAttempts /\ ENABLED PublishGiveUp)
    /\ (pc = "loop_stop" /\ status # 0)
          => (published = MaxAttempts /\ ENABLED LoopStop)
    /\ (pc \in {"publish", "loop_stop", "sleep"} /\ Len(history) > 0)
          => (absent_count = Last.count /\ notified = Last.notified)
    /\ (pc = "sleep") => ENABLED Sleep

C9_NotifyNeverStopsTheLoop ==
    (pc = "crashed") => (Len(history) = 0 \/ Last.outcome # "pending")

\* The counts of the retry loop: at its head every attempt so far failed, a
\* failure leads to another attempt until 5 were made, and the loop is left
\* after the first success or the fifth failure, with 1 to 5 attempts made.
C10_AttemptsInvariant ==
    /\ published <= MaxAttempts
    /\ (pc = "publish")
          => /\ status # 0
             /\ published = attempts
             /\ ENABLED (Publish \/ PublishGiveUp)
             /\ (attempts < MaxAttempts) => ENABLED Publish
    /\ (pc = "loop_stop")
          => /\ published >= 1
             /\ (status = 0 \/ published = MaxAttempts)
             /\ (status = 0) => (published = attempts + 1)

\* C10: the publish of a notify call is attempted at least once and at most
\* 5 times, a failed attempt is followed by another until 5 were made, none
\* follows the first success, and the retry loop terminates.
C10_PublishAttemptsBounded ==
    /\ []C10_AttemptsInvariant
    /\ (pc = "publish") ~> (pc = "loop_stop")

\* C10 witness: a success on the fifth attempt, after four failures.
C10_Witness ==
    /\ pc = "loop_stop"
    /\ status = 0
    /\ published = MaxAttempts

\* ------------------------------------------------------------ scan failures

\* C11: a cycle whose scanner call raises does not end the process: the
\* process is never ended by an exception outside a notify call.
C11_ScanFailureDoesNotEndTheProcess ==
    (pc = "crashed") => (Len(history) > 0 /\ Last.outcome = "pending")

\* ------------------------------------------------------------ startup's properties

\* The text is a decimal integer: digits, after at most one sign.
DecimalInteger(text) ==
    LET digits == {"0", "1", "2", "3", "4", "5", "6", "7", "8", "9"}
        signed == Len(text) >= 1 /\ text[1] \in {"-", "+"}
    IN  /\ Len(text) >= (IF signed THEN 2 ELSE 1)
        /\ \A i \in 1..Len(text) : (i = 1 /\ signed) \/ text[i] \in digits

\* A required setting is missing, or one of the three numbers is no integer.
BadEnvironment ==
    \/ \E name \in Settings : environ[name] = <<>>
    \/ ~DecimalInteger(environ.PYABS_DELAY)
    \/ ~DecimalInteger(environ.PYABS_RETRIES)
    \/ ~DecimalInteger(environ.MQTT_PORT)

\* main() has got past line 153.
Started ==
    pc \notin {"start", "aborted"}

\* C12: when one of the seven settings is missing, or delay, retries or the
\* port is no integer, or no trigger is configured, startup aborts before the
\* MQTT client is built and before the first scan; the loop is never entered
\* with an empty list of triggers.
C12_BadConfigurationAborts ==
    /\ BadEnvironment => ~Started
    /\ (pc = "aborted")
          => (BadEnvironment /\ history = <<>> /\ sock = "closed")
    /\ Started => (Len(triggers) >= 1 /\ environ.PYABS_TRIGGERS # <<>>)

\* C12 witness: startup has aborted on a retries setting that is no integer,
\* every other setting being good.
C12_Witness ==
    /\ pc = "aborted"
    /\ environ.PYABS_RETRIES = <<"x">>
    /\ \A name \in Settings : environ[name] # <<>>
    /\ DecimalInteger(environ.PYABS_DELAY)
    /\ DecimalInteger(environ.MQTT_PORT)

\* ------------------------------------------------------------ what is published

\* C13: every publish() the program makes, in any cycle and any retry, is to
\* the topic of the configuration (the text of MQTT_TOPIC) with the payload
\* "on".
C13_OnlyOnToTheConfiguredTopic ==
    /\ \A call \in sent :
          /\ call = <<cfg.mqttTopic, "on">>
          /\ call[1] = environ.MQTT_TOPIC[1]
    /\ (published > 0) => (sent # {})

\* C13 witness: in a second notify call, to the second topic, a retry has
\* been published.
C13_Witness ==
    /\ NotifyCalls(Len(history)) >= 2
    /\ published >= 2
    /\ sent = {<<"home/alarm", "on">>}

\* ------------------------------------------------------------ the controller's state classes

\* The class of a controller state: absent_count = count, notified = flag.
ClassOf(count, flag) ==
    IF count = 0 /\ ~flag THEN "ARMED_PRESENT"
    ELSE IF 0 < count /\ count <= retries /\ ~flag THEN "ARMED_ABSENT"
    ELSE IF flag /\ count > retries THEN "FIRED"
    ELSE "NONE"

\* The class at the end of cycle i; cycle 0 is the start of the loop.
Class(i) ==
    IF i = 0 THEN ClassOf(0, FALSE)
             ELSE ClassOf(history[i].count, history[i].notified)

\* C14: with retries >= 0, at the end of every cycle notified is true iff
\* absent_count > retries, and the state is one of ARMED_PRESENT,
\* ARMED_ABSENT and FIRED.
C14_NotifiedIffOverThreshold ==
    (retries >= 0) =>
        /\ notified <=> (absent_count > retries)
        /\ ClassOf(absent_count, notified) # "NONE"
        /\ \A i \in 1..Len(history) :
              /\ history[i].notified <=> (history[i].count > retries)
              /\ Class(i) \in {"ARMED_PRESENT", "ARMED_ABSENT", "FIRED"}

\* C14 witness: with retries = 1 the last three cycles ended in
\* ARMED_ABSENT, FIRED and ARMED_PRESENT.
C14_Witness ==
    /\ retries = 1
    /\ Len(history) >= 3
    /\ Class(Len(history) - 2) = "ARMED_ABSENT"
    /\ Class(Len(history) - 1) = "FIRED"
    /\ Class(Len(history)) = "ARMED_PRESENT"

\* The five transitions of the controller's state machine.
ListedTransitions ==
    {<<"ARMED_PRESENT", "ARMED_ABSENT">>, <<"ARMED_ABSENT", "ARMED_ABSENT">>,
     <<"ARMED_ABSENT", "FIRED">>, <<"FIRED", "ARMED_PRESENT">>,
     <<"ARMED_ABSENT", "ARMED_PRESENT">>}

\* C15 as stated: with retries >= 0 every change of class from the end of one
\* cycle to the end of the next is one of the five listed transitions, and
\* FIRED is entered only from ARMED_ABSENT.
C15_OnlyListedTransitions ==
    (retries >= 0) =>
        \A i \in 0..(Len(history) - 1) :
            (Class(i) # Class(i + 1)) =>
                /\ <<Class(i), Class(i + 1)>> \in ListedTransitions
                /\ (Class(i + 1) = "FIRED") => (Class(i) = "ARMED_ABSENT")

\* C15 amended: with retries >= 0 every change of class is one of the five
\* listed transitions or, when retries = 0, ARMED_PRESENT to FIRED; FIRED is
\* entered only from ARMED_ABSENT when retries >= 1, and only from
\* ARMED_PRESENT when retries = 0, where no state is ARMED_ABSENT.
C15_ListedTransitionsOrDirectFiring ==
    (retries >= 0) =>
        \A i \in 0..(Len(history) - 1) :
            /\ (Class(i) # Class(i + 1)) =>
                  \/ <<Class(i), Class(i + 1)>> \in ListedTransitions
                  \/ /\ retries = 0
                     /\ <<Class(i), Class(i + 1)>> = <<"ARMED_PRESENT", "FIRED">>
            /\ (Class(i) # "FIRED" /\ Class(i + 1) = "FIRED") =>
                  Class(i) = (IF retries = 0 THEN "ARMED_PRESENT"
                                             ELSE "ARMED_ABSENT")
            /\ (retries = 0) => (Class(i + 1) # "ARMED_ABSENT")

\* C15 witness: with retries = 0 a cycle that ended ARMED_PRESENT is followed
\* by one that ended FIRED.
C15_Witness ==
    /\ retries = 0
    /\ Len(history) >= 2
    /\ Class(Len(history) - 1) = "ARMED_PRESENT"
    /\ Class(Len(history)) = "FIRED"
    /\ pc = "sleep"

\* ------------------------------------------------------------ the connection and the network loop

\* C16: a publish attempt is made only after on_connect has reported the
\* connection accepted (rc = 0): while a notify call has published, the
\* result of its connection is known and is success.
C16_PublishOnlyAfterConnected ==
    (published > 0) => (connack = "accepted")

\* C17: the network loop a notify call starts is stopped before the call
\* returns, whatever the publish did: it runs only between loop_start and
\* loop_stop, never during the sleep, the scan or the next connect, and
\* loop_start never finds a loop running.
C17_LoopScopedToNotify ==
    /\ loopRunning => (pc \in {"publish_begin", "publish", "loop_stop"})
    /\ (pc \in {"publish_begin", "publish", "loop_stop"}) => loopRunning
    /\ (pc = "sleep" /\ Len(history) > 0 /\ Last.fired)
          => (Last.outcome \in {"sent", "failed"} /\ ~loopRunning)

\* C17 witness: two notify calls have returned, the last with all five
\* attempts failed, and the second loop is stopped.
C17_Witness ==
    /\ pc = "sleep"
    /\ NotifyCalls(Len(history)) >= 2
    /\ Last.outcome = "failed"
    /\ ~loopRunning

\* C18: the connection a notify call opens is closed before the call
\* returns: outside notify, and when the next call is about to connect, no
\* connection is open.
C18_ConnectionClosedOnReturn ==
    (pc \in {"sleep", "scan", "connect"}) => (sock = "closed")

\* C19: whatever retries startup accepted, negative values included, the
\* notifier is never called in a cycle that observed a trigger.
C19_NoNotifyWhileTriggerObserved ==
    \A i \in 1..Len(history) :
        ~NoTriggerSeen(history[i].macs) => ~history[i].fired

\* ------------------------------------------------------------ progress of the loop

\* The cycle in which the notifier is due when cycle p was the last one to
\* observe a trigger (p = 0: none did): retries + 1 cycles later, and for
\* negative retries the cycle of the presence itself (the first cycle when
\* there was none).
Deadline(p) ==
    IF retries >= 0 THEN p + retries + 1 ELSE IF p = 0 THEN 1 ELSE p

\* Cycle p was the last to observe a trigger so far, or p = 0 and none did.
LastPresence(p) ==
    /\ p <= Len(history)
    /\ (p > 0) => ~NoTriggerSeen(history[p].macs)
    /\ AllAbsent(p + 1, Len(history))

=============================================================================
